---- MODULE Spec2Model ----
(***************************************************************************)
(* fcpxml-chapter-export: two variants of one script.                      *)
(*   "index"    = src/index.js          (strict converter, hard-coded path)*)
(*   "part_000" = src/unnamed/part_000  (permissive converter, generic     *)
(*                                       recursive walk)                   *)
(* JavaScript values are modelled as tagged records:                       *)
(*   [t |-> "undef"]                       undefined (absent attribute)    *)
(*   [t |-> "null"]                        null (calculateChapterTime)     *)
(*   [t |-> "str", s |-> <<chars>>]        a string, one character a cell  *)
(*   [t |-> "obj", kv |-> <<[k, v], ..>>]  an object, keys in insert order *)
(*   [t |-> "arr", el |-> <<v, ..>>]       an array                        *)
(* Numbers are IEEE doubles in the code; here they are exact signed        *)
(* rationals with a signed zero, +-Infinity and NaN                        *)
(*   [k |-> "fin" | "inf" | "nan", neg, n, d].                             *)
(* Rounding of doubles is not modelled: the timing attributes of the       *)
(* documents drawn are integers and halves, which doubles hold exactly.    *)
(***************************************************************************)
EXTENDS Integers, Sequences, FiniteSets, Bags, TLC

VARIABLES prog, json, chapters, outputTimes, stdout, pc, arg, ret

vars == <<prog, json, chapters, outputTimes, stdout, pc, arg, ret>>

Progs == {"index", "part_000"}

\* ------------------------------------------------------------------ bounds
MaxLen == 5
MaxClips == 2
MaxDepth == 1

\* ------------------------------------------------------------- JS values
Undef == [t |-> "undef"]
Null == [t |-> "null"]
Str(s) == [t |-> "str", s |-> s]
Obj(kv) == [t |-> "obj", kv |-> kv]
Arr(el) == [t |-> "arr", el |-> el]
KV(k, v) == [k |-> k, v |-> v]

\* ------------------------------------------------------------ JS numbers
NaN == [k |-> "nan", neg |-> FALSE, n |-> 0, d |-> 1]
Inf(neg) == [k |-> "inf", neg |-> neg, n |-> 0, d |-> 1]

RECURSIVE GCD(_, _)
GCD(a, b) == IF b = 0 THEN a ELSE GCD(b, a % b)

Fin(neg, n, d) == LET g == GCD(n, d) IN [k |-> "fin", neg |-> neg, n |-> n \div g, d |-> d \div g]
Zero == Fin(FALSE, 0, 1)
Signed(a) == IF a.neg THEN 0 - a.n ELSE a.n
Abs(i) == IF i < 0 THEN 0 - i ELSE i

\* a / b on doubles
NumDiv(a, b) ==
  IF a.k = "nan" \/ b.k = "nan" THEN NaN
  ELSE IF a.k = "inf" THEN (IF b.k = "inf" THEN NaN ELSE Inf(a.neg # b.neg))
  ELSE IF b.k = "inf" THEN Fin(a.neg # b.neg, 0, 1)
  ELSE IF b.n = 0 THEN (IF a.n = 0 THEN NaN ELSE Inf(a.neg # b.neg))
  ELSE Fin(a.neg # b.neg, a.n * b.d, a.d * b.n)

NumNeg(a) == IF a.k = "nan" THEN NaN ELSE [a EXCEPT !.neg = ~a.neg]

\* a + b on doubles
NumAdd(a, b) ==
  IF a.k = "nan" \/ b.k = "nan" THEN NaN
  ELSE IF a.k = "inf" THEN (IF b.k = "inf" /\ a.neg # b.neg THEN NaN ELSE a)
  ELSE IF b.k = "inf" THEN b
  ELSE LET num == Signed(a) * b.d + Signed(b) * a.d
       IN IF num = 0 THEN Fin(a.neg /\ b.neg, 0, 1)
          ELSE Fin(num < 0, Abs(num), a.d * b.d)

\* a * b on doubles
NumMul(a, b) ==
  IF a.k = "nan" \/ b.k = "nan" THEN NaN
  ELSE IF a.k = "inf" \/ b.k = "inf"
       THEN (IF (a.k = "fin" /\ a.n = 0) \/ (b.k = "fin" /\ b.n = 0) THEN NaN
             ELSE Inf(a.neg # b.neg))
  ELSE Fin(a.neg # b.neg, a.n * b.n, a.d * b.d)

\* a - b on doubles
NumSub(a, b) == NumAdd(a, NumNeg(b))

\* a < b on doubles (false whenever either side is NaN)
NumLt(a, b) ==
  IF a.k = "nan" \/ b.k = "nan" THEN FALSE
  ELSE IF a.k = "inf" THEN a.neg /\ ~(b.k = "inf" /\ b.neg)
  ELSE IF b.k = "inf" THEN ~b.neg
  ELSE Signed(a) * b.d < Signed(b) * a.d

\* Math.floor
NumFloor(a) ==
  IF a.k # "fin" THEN a
  ELSE LET q == Signed(a) \div a.d
       IN IF q = 0 THEN Fin(a.neg /\ a.n = 0, 0, 1) ELSE Fin(q < 0, Abs(q), 1)

\* a % m on doubles, a an integer-valued double or not finite, m a positive integer
NumRem(a, m) ==
  IF a.k # "fin" THEN NaN ELSE Fin(a.neg, a.n % m, 1)

\* ------------------------------------------------------------ JS strings
Digits == <<"0", "1", "2", "3", "4", "5", "6", "7", "8", "9">>

IsDigit(c) == \E i \in 1..10 : Digits[i] = c
DigitVal(c) == (CHOOSE i \in 1..10 : Digits[i] = c) - 1

RECURSIVE SkipSpaces(_)
SkipSpaces(s) == IF s # <<>> /\ Head(s) = " " THEN SkipSpaces(Tail(s)) ELSE s

\* value of the longest leading run of decimal digits of s, from acc
RECURSIVE DigitRun(_, _)
DigitRun(s, acc) ==
  IF s # <<>> /\ IsDigit(Head(s)) THEN DigitRun(Tail(s), acc * 10 + DigitVal(Head(s))) ELSE acc

\* parseInt(string): leading blanks, an optional sign, then decimal digits up
\* to the first other character; NaN when there is no digit. (The hexadecimal
\* prefix 0x is outside the alphabet of the inputs drawn here.)
ParseInt(s) ==
  LET t == SkipSpaces(s)
      neg == t # <<>> /\ Head(t) = "-"
      u == IF t # <<>> /\ Head(t) \in {"-", "+"} THEN Tail(t) ELSE t
  IN IF u = <<>> \/ ~IsDigit(Head(u)) THEN NaN ELSE Fin(neg, DigitRun(u, 0), 1)

\* string.replace(/s$/, '')
StripS(s) == IF s # <<>> /\ s[Len(s)] = "s" THEN SubSeq(s, 1, Len(s) - 1) ELSE s

\* string.split('/'): always at least one part
RECURSIVE SplitOn(_, _, _)
SplitOn(s, sep, cur) ==
  IF s = <<>> THEN <<cur>>
  ELSE IF Head(s) = sep THEN <<cur>> \o SplitOn(Tail(s), sep, <<>>)
  ELSE SplitOn(Tail(s), sep, Append(cur, Head(s)))

Split(s) == SplitOn(s, "/", <<>>)

\* typeof x !== 'string' || !x  ->  ''
AsRationalString(v) == IF v.t = "str" THEN v.s ELSE <<>>

\* convertRationalNumber of src/index.js (strict)
ConvertStrict(v) ==
  LET rationalParts == Split(StripS(AsRationalString(v)))
  IN IF Len(rationalParts) # 2 THEN Zero
     ELSE NumDiv(ParseInt(rationalParts[1]), ParseInt(rationalParts[2]))

\* convertRationalNumber of src/unnamed/part_000 (permissive)
ConvertPermissive(v) ==
  LET rationalParts == Split(StripS(AsRationalString(v)))
  IN IF Len(rationalParts) = 1 THEN ParseInt(rationalParts[1])
     ELSE NumDiv(ParseInt(rationalParts[1]), ParseInt(rationalParts[2]))

convertRationalNumber(p, v) == IF p = "index" THEN ConvertStrict(v) ELSE ConvertPermissive(v)

\* -------------------------------------------------- calculateChapterTime
RECURSIVE NatToString(_)
NatToString(n) ==
  IF n < 10 THEN <<Digits[n + 1]>> ELSE Append(NatToString(n \div 10), Digits[(n % 10) + 1])

\* Number.prototype.toString() of an integer-valued double (-0 prints as "0")
NumToString(a) ==
  IF a.k = "nan" THEN <<"N", "a", "N">>
  ELSE IF a.k = "inf" THEN (IF a.neg THEN <<"-">> ELSE <<>>) \o <<"I", "n", "f", "i", "n", "i", "t", "y">>
  ELSE (IF a.neg /\ a.n # 0 THEN <<"-">> ELSE <<>>) \o NatToString(a.n)

\* string.padStart(2, '0')
PadStart2(s) == IF Len(s) >= 2 THEN s ELSE IF Len(s) = 1 THEN <<"0">> \o s ELSE <<"0", "0">>

Sixty == Fin(FALSE, 60, 1)
SecondsPerHour == Fin(FALSE, 3600, 1)

\* a slip of the comparison: rejects a marker placed exactly at the asset's start
BeforeAssetOrEqual(chapterStart, assetStart) ==
  NumLt(chapterStart, assetStart) \/ chapterStart = assetStart

\* chapterStart < assetStart, the rejection test of calculateChapterTime
BeforeAsset(chapterStart, assetStart) == NumLt(chapterStart, assetStart)

\* the three numbers <<hours, minutes, seconds>> calculateChapterTime prints
HMS(chapterOffset) ==
  LET seconds == NumRem(chapterOffset, 60)
      minutes == NumRem(NumDiv(NumSub(chapterOffset, seconds), Sixty), 60)
      hours == NumDiv(NumSub(NumSub(chapterOffset, seconds), NumMul(minutes, Sixty)),
                      SecondsPerHour)
  IN <<hours, minutes, seconds>>

\* Math.floor(chapterStart - assetStart + assetOffset) of a record, under prog p
ChapterOffset(p, chapter) ==
  NumFloor(NumAdd(NumSub(convertRationalNumber(p, chapter.start),
                         convertRationalNumber(p, chapter.assetStart)),
                  convertRationalNumber(p, chapter.assetOffset)))

calculateChapterTime(p, chapter) ==
  IF BeforeAsset(convertRationalNumber(p, chapter.start),
                 convertRationalNumber(p, chapter.assetStart))
  THEN Null
  ELSE LET hms == HMS(ChapterOffset(p, chapter))
       IN Str(PadStart2(NumToString(hms[1])) \o <<":">> \o
              PadStart2(NumToString(hms[2])) \o <<":">> \o
              PadStart2(NumToString(hms[3])))

\* ------------------------------------------------------- object helpers
\* obj.hasOwnProperty(key), for the keys the scripts ask about
HasOwn(v, key) == v.t = "obj" /\ \E i \in 1..Len(v.kv) : v.kv[i].k = key

\* obj[key]: undefined when absent, or when v is a string or an array
Prop(v, key) ==
  IF HasOwn(v, key) THEN v.kv[CHOOSE i \in 1..Len(v.kv) : v.kv[i].k = key].v ELSE Undef

\* typeof v === 'object' (null never comes out of the parser)
IsObjectType(v) == v.t \in {"obj", "arr", "null"}

RECURSIVE Flatten(_)
Flatten(ss) == IF ss = <<>> THEN <<>> ELSE Head(ss) \o Flatten(Tail(ss))

\* a slip of the attribution: assetStart read from the marker, not its holder
MarkerRecordOwnStart(chapterMarker, obj) ==
  [name |-> Prop(chapterMarker, "@_value"),
   start |-> Prop(chapterMarker, "@_start"),
   assetOffset |-> Prop(obj, "@_offset"),
   assetStart |-> Prop(chapterMarker, "@_start")]

\* the record pushed for one value held under 'chapter-marker' of holder obj
MarkerRecord(chapterMarker, obj) ==
  [name |-> Prop(chapterMarker, "@_value"),
   start |-> Prop(chapterMarker, "@_start"),
   assetOffset |-> Prop(obj, "@_offset"),
   assetStart |-> Prop(obj, "@_start")]

\* the records one node contributes for its own 'chapter-marker' child
OwnMarkers(obj) ==
  IF ~HasOwn(obj, "chapter-marker") THEN <<>>
  ELSE LET cm == Prop(obj, "chapter-marker")
       IN IF cm.t = "arr" THEN [i \in 1..Len(cm.el) |-> MarkerRecord(cm.el[i], obj)]
          ELSE <<MarkerRecord(cm, obj)>>

\* the values for...in visits: array elements, or own properties in order
Children(obj) ==
  IF obj.t = "arr" THEN obj.el
  ELSE IF obj.t = "obj" THEN [i \in 1..Len(obj.kv) |-> obj.kv[i].v]
  ELSE <<>>

\* a slip of the walk: arrays (repeated elements) are not descended into
RECURSIVE findChapterMarkersPlainObjects(_)
findChapterMarkersPlainObjects(obj) ==
  IF obj.t # "obj" THEN <<>>
  ELSE LET kids == Children(obj)
       IN OwnMarkers(obj) \o
          Flatten([i \in 1..Len(kids) |-> findChapterMarkersPlainObjects(kids[i])])

\* findChapterMarkers of src/unnamed/part_000: the records appended to
\* chapters, in the order they are appended
RECURSIVE findChapterMarkers(_)
findChapterMarkers(obj) ==
  IF ~IsObjectType(obj) \/ obj.t = "null" THEN <<>>
  ELSE LET kids == Children(obj)
       IN OwnMarkers(obj) \o
          Flatten([i \in 1..Len(kids) |->
                     IF IsObjectType(kids[i]) THEN findChapterMarkers(kids[i]) ELSE <<>>])

\* lodash get(object, path, defaultValue)
RECURSIVE LodashGet(_, _, _)
LodashGet(v, path, dflt) ==
  IF path = <<>> THEN (IF v.t = "undef" THEN dflt ELSE v)
  ELSE IF v.t \in {"undef", "null"} THEN dflt
  ELSE LodashGet(Prop(v, Head(path)), Tail(path), dflt)

SpinePath == <<"fcpxml", "library", "event", "project", "sequence", "spine">>

\* JS truthiness of a parsed value
Truthy(v) == ~(v.t \in {"undef", "null"} \/ (v.t = "str" /\ v.s = <<>>))

\* src/index.js 73-80: get(...), wrapped into an array when truthy and not
\* one, then spread (an empty string spreads to nothing)
ClipList(kind) ==
  LET got == LodashGet(json, Append(SpinePath, kind), Arr(<<>>))
      asArray == IF Truthy(got) /\ got.t # "arr" THEN Arr(<<got>>) ELSE got
  IN IF asArray.t = "arr" THEN asArray.el ELSE <<>>

\* src/index.js 82-107: the records one clip of the list contributes
ClipMarkers(clip) ==
  IF ~HasOwn(clip, "chapter-marker") THEN <<>>
  ELSE LET cm == Prop(clip, "chapter-marker")
       IN IF cm.t = "arr"
          THEN [i \in 1..Len(cm.el) |->
                  [name |-> Prop(cm.el[i], "@_value"), start |-> Prop(cm.el[i], "@_start"),
                   assetOffset |-> Prop(clip, "@_offset"), assetStart |-> Prop(clip, "@_start")]]
          ELSE <<[name |-> Prop(cm, "@_value"), start |-> Prop(cm, "@_start"),
                  assetOffset |-> Prop(clip, "@_offset"), assetStart |-> Prop(clip, "@_start")]>>

\* src/index.js 81-107: the records pushed from the asset-clip and ref-clip
\* children of the spine
HardCodedChapters ==
  LET clips == ClipList("asset-clip") \o ClipList("ref-clip")
  IN Flatten([i \in 1..Len(clips) |-> ClipMarkers(clips[i])])

\* ------------------------------------------------------------ the driver
\* `${x}` of a string or of undefined
TemplateString(v) ==
  IF v.t = "str" THEN v.s ELSE <<"u", "n", "d", "e", "f", "i", "n", "e", "d">>

\* !chapterTime
Falsy(v) == ~Truthy(v)

OutputLine(p, chapter) ==
  calculateChapterTime(p, chapter).s \o <<" ">> \o TemplateString(chapter.name)

\* lines 109-117: the lines pushed on outputTimes for a list of records
RECURSIVE ResolveAll(_, _)
ResolveAll(p, cs) ==
  IF cs = <<>> THEN <<>>
  ELSE (IF Falsy(calculateChapterTime(p, Head(cs))) THEN <<>> ELSE <<OutputLine(p, Head(cs))>>)
       \o ResolveAll(p, Tail(cs))

\* UTF-16 code unit of the characters that occur in lines
CharCode(c) ==
  CASE c = " " -> 32 [] c = "+" -> 43 [] c = "-" -> 45 [] c = "/" -> 47
    [] IsDigit(c) -> 48 + DigitVal(c)
    [] c = ":" -> 58 [] c = "A" -> 65 [] c = "B" -> 66 [] c = "I" -> 73 [] c = "N" -> 78
    [] c = "a" -> 97 [] c = "b" -> 98 [] c = "c" -> 99 [] c = "d" -> 100
    [] c = "e" -> 101 [] c = "f" -> 102 [] c = "i" -> 105 [] c = "n" -> 110
    [] c = "s" -> 115 [] c = "t" -> 116 [] c = "u" -> 117 [] c = "y" -> 121

\* a < b as Array.prototype.sort() compares strings by default
RECURSIVE StringLt(_, _)
StringLt(a, b) ==
  IF b = <<>> THEN FALSE
  ELSE IF a = <<>> THEN TRUE
  ELSE IF Head(a) = Head(b) THEN StringLt(Tail(a), Tail(b))
  ELSE CharCode(Head(a)) < CharCode(Head(b))

\* insert line x into the sorted list s, after the lines equal to it
RECURSIVE InsertSorted(_, _)
InsertSorted(x, s) ==
  IF s = <<>> THEN <<x>>
  ELSE IF StringLt(x, Head(s)) THEN <<x>> \o s
  ELSE <<Head(s)>> \o InsertSorted(x, Tail(s))

RECURSIVE Unique(_)
Unique(s) ==
  IF Len(s) < 2 THEN s
  ELSE IF s[1] = s[2] THEN Unique(Tail(s)) ELSE <<s[1]>> \o Unique(Tail(s))

\* a slip of the sort: equal lines collapse into one
RECURSIVE SortLinesUnique(_)
SortLinesUnique(s) ==
  IF s = <<>> THEN <<>>
  ELSE Unique(InsertSorted(s[Len(s)], SortLinesUnique(SubSeq(s, 1, Len(s) - 1))))

\* outputTimes.sort(): the stable ascending sort by code units
RECURSIVE SortLines(_)
SortLines(s) ==
  IF s = <<>> THEN <<>> ELSE InsertSorted(s[Len(s)], SortLines(SubSeq(s, 1, Len(s) - 1)))

\* ------------------------------------------------------------ the inputs
\* rational-time attribute values
T0 == <<"0", "/", "1", "s">>
T5 == <<"5", "/", "1", "s">>
THalf == <<"1", "5", "/", "2", "s">>
TBad == <<"a", "b", "c", "/", "7", "5", "0", "0", "s">>
TMinus == <<"-", "5", "/", "1", "s">>
T10h == <<"3", "6", "0", "0", "0", "/", "1", "s">>
T100h == <<"3", "6", "0", "0", "0", "0", "/", "1", "s">>

MarkerStarts == {T0, T5}
ClipStarts == {T0, T5, TBad}
ClipOffsets == {TMinus, T10h, T100h}
Names == {<<"A">>}

Marker(name, start) == Obj(<<KV("@_value", Str(name)), KV("@_start", Str(start))>>)

\* <fcpxml><library><event><project><sequence><spine>..., event repeated or not
Doc(spine, manyEvents) ==
  LET event == Obj(<<KV("project", Obj(<<KV("sequence", Obj(<<KV("spine", spine)>>))>>))>>)
      other == Obj(<<KV("@_name", Str(<<"B">>))>>)
  IN Obj(<<KV("fcpxml", Obj(<<KV("@_version", Str(<<"1">>)),
           KV("library", Obj(<<KV("event", IF manyEvents THEN Arr(<<event, other>>) ELSE event)>>))>>))>>)

\* a repeated element parses to an array, a single one to the object itself
Repeated(els) == IF Len(els) = 1 THEN els[1] ELSE Arr(els)

\* flat projects: 1..MaxClips asset-clips in the spine, one marker each, every
\* timing attribute drawn freely
TimedClips ==
  {Obj(<<KV("@_offset", Str(o)), KV("@_start", Str(a)), KV("chapter-marker", Marker(n, m))>>) :
     o \in ClipOffsets, a \in ClipStarts, n \in Names, m \in MarkerStarts}

FlatDocs ==
  {Doc(Obj(<<KV("asset-clip", Repeated(cs))>>), FALSE) :
     cs \in UNION {[1..k -> TimedClips] : k \in 1..MaxClips}}

\* nested projects: what a clip may hold under 'chapter-marker' (nothing, one
\* marker, two markers, or an empty element, which parses to '')
MarkerVals ==
  {Undef, Marker(<<"A">>, T5), Arr(<<Marker(<<"A">>, T5), Marker(<<"B">>, THalf)>>), Str(<<>>)}

LabelledClip(lab, mv, extra) ==
  Obj(<<KV("@_offset", Str(<<Digits[lab + 1], "/", "1", "s">>)), KV("@_start", Str(T0))>>
      \o (IF mv = Undef THEN <<>> ELSE <<KV("chapter-marker", mv)>>) \o extra)

\* clips nested at most d deep, the clip at depth i labelled by its offset
RECURSIVE ClipsOf(_, _)
ClipsOf(d, lab) ==
  {LabelledClip(lab, mv, <<>>) : mv \in MarkerVals} \cup
  (IF d = 0 THEN {}
   ELSE {LabelledClip(lab, x[1], <<KV(x[2], x[3])>>) :
           x \in MarkerVals \X {"asset-clip", "clip"} \X ClipsOf(d - 1, lab + 1)})

Slot(key, vals) == {<<>>} \cup {<<KV(key, v)>> : v \in vals}

NestedDocs ==
  {Doc(Obj(x[1] \o x[2] \o x[3]), x[4]) :
     x \in Slot("asset-clip", ClipsOf(MaxDepth, 1) \cup
                  {Arr(<<c[1], LabelledClip(6, c[2], <<>>)>>) :
                     c \in ClipsOf(MaxDepth, 1) \X {Undef, Marker(<<"B">>, T5)}})
           \X Slot("ref-clip", {LabelledClip(7, mv, <<>>) : mv \in {Undef, Marker(<<"B">>, T0)}})
           \X Slot("gap", {LabelledClip(8, Marker(<<"A">>, T0), <<>>)})
           \X BOOLEAN}

Docs == FlatDocs \cup NestedDocs

\* strings convertRationalNumber is tried on: every string of at most MaxLen
\* characters of this alphabet, and a value that is not a string
Alphabet == {"0", "1", "5", "-", "/", "s", "a"}
ConvInputs == {Undef} \cup {Str(s) : s \in UNION {[1..k -> Alphabet] : k \in 0..MaxLen}}

\* ------------------------------------------------------- the two scripts
Init ==
  /\ prog \in Progs
  /\ json \in Docs
  /\ chapters = <<>>
  /\ outputTimes = <<>>
  /\ stdout = <<>>
  /\ pc = "parsed"
  /\ arg = Undef
  /\ ret = Undef

\* src/unnamed/part_000 line 107
CollectGeneric ==
  /\ pc = "parsed" /\ prog = "part_000"
  /\ chapters' = findChapterMarkers(json)
  /\ pc' = "collected"
  /\ UNCHANGED <<prog, json, outputTimes, stdout, arg, ret>>

\* src/index.js lines 71-107
CollectHardCoded ==
  /\ pc = "parsed" /\ prog = "index"
  /\ chapters' = HardCodedChapters
  /\ pc' = "collected"
  /\ UNCHANGED <<prog, json, outputTimes, stdout, arg, ret>>

\* lines 109-117 of either script
Resolve ==
  /\ pc = "collected"
  /\ outputTimes' = ResolveAll(prog, chapters)
  /\ pc' = "resolved"
  /\ UNCHANGED <<prog, json, chapters, stdout, arg, ret>>

\* lines 119-121 of either script: sort in place, then print each line
Emit ==
  /\ pc = "resolved"
  /\ outputTimes' = SortLines(outputTimes)
  /\ stdout' = outputTimes'
  /\ pc' = "printed"
  /\ UNCHANGED <<prog, json, chapters, arg, ret>>

Next == CollectGeneric \/ CollectHardCoded \/ Resolve \/ Emit

Spec == Init /\ [][Next]_vars

\* convertRationalNumber on its own
ConvInit ==
  /\ prog \in Progs
  /\ arg \in ConvInputs
  /\ ret = Undef
  /\ pc = "call"
  /\ json = Undef
  /\ chapters = <<>>
  /\ outputTimes = <<>>
  /\ stdout = <<>>

Convert ==
  /\ pc = "call"
  /\ ret' = convertRationalNumber(prog, arg)
  /\ pc' = "returned"
  /\ UNCHANGED <<prog, json, chapters, outputTimes, stdout, arg>>

ConvNext == Convert

SpecConv == ConvInit /\ [][ConvNext]_vars

\* ================================================================ claims
\* ---- helpers of the formulas
Recs == 1..Len(chapters)
StartOf(i) == convertRationalNumber(prog, chapters[i].start)
AssetStartOf(i) == convertRationalNumber(prog, chapters[i].assetStart)
AssetOffsetOf(i) == convertRationalNumber(prog, chapters[i].assetOffset)
TimeOf(i) == calculateChapterTime(prog, chapters[i])
Accepted == {i \in Recs : TimeOf(i) # Null}
Count(seq, x) == Cardinality({k \in 1..Len(seq) : seq[k] = x})

AllDigits(f) == \A k \in 1..Len(f) : IsDigit(f[k])
\* the value of a field of digits
FieldVal(f) == DigitRun(f, 0)
\* "HH:MM:SS" read back: three fields of two or more digits each
ReadsBack(t) ==
  LET f == SplitOn(t, ":", <<>>)
  IN Len(f) = 3 /\ \A k \in 1..3 : Len(f[k]) >= 2 /\ AllDigits(f[k])
SecondsRead(t) ==
  LET f == SplitOn(t, ":", <<>>)
  IN FieldVal(f[1]) * 3600 + FieldVal(f[2]) * 60 + FieldVal(f[3])
\* the text of a line before its first blank
TimePrefix(line) == SplitOn(line, " ", <<>>)[1]

\* ---- C1: a record whose converted start is strictly less than its converted
\* assetStart resolves to null and yields no output line, and every other
\* record still yields its line: the lines number exactly the other records.
C1_BeforeAssetDropped ==
  pc \in {"resolved", "printed"} =>
    /\ \A i \in Recs : NumLt(StartOf(i), AssetStartOf(i)) => TimeOf(i) = Null
    /\ Len(outputTimes) = Cardinality({i \in Recs : ~NumLt(StartOf(i), AssetStartOf(i))})

C1_Witness ==
  /\ pc = "printed"
  /\ \E i, j \in Recs : /\ NumLt(StartOf(i), AssetStartOf(i))
                        /\ StartOf(j) = AssetStartOf(j)
  /\ Len(stdout) = Len(chapters) - 1

HasNaN(i) == StartOf(i).k = "nan" \/ AssetStartOf(i).k = "nan" \/ AssetOffsetOf(i).k = "nan"

\* ---- C2: a record one of whose start, assetStart, assetOffset converts to
\* not-a-number resolves to the invalid result and yields no output line.
C2_NaNRecordDropped ==
  pc \in {"resolved", "printed"} =>
    /\ \A i \in Recs : HasNaN(i) => TimeOf(i) = Null
    /\ Len(outputTimes) <= Cardinality({i \in Recs : ~HasNaN(i)})

\* x == 0
IsZero(x) == x.k = "fin" /\ x.n = 0

\* ---- C3: convertRationalNumber returns 0 for the empty string and for a
\* value that is not a string, in both variants.
C3_EmptyIsZero ==
  (pc = "returned" /\ (arg.t # "str" \/ arg.s = <<>>)) => IsZero(ret)

\* ---- marker objects of a tree, found by path
Step(k, i) == [k |-> k, i |-> i]

\* the paths of all nodes of a tree
RECURSIVE Positions(_)
Positions(v) ==
  {<<>>} \cup
  (IF v.t = "obj"
   THEN UNION {{<<Step(v.kv[i].k, 0)>> \o p : p \in Positions(v.kv[i].v)} : i \in 1..Len(v.kv)}
   ELSE IF v.t = "arr"
   THEN UNION {{<<Step("", i)>> \o p : p \in Positions(v.el[i])} : i \in 1..Len(v.el)}
   ELSE {})

RECURSIVE NodeAt(_, _)
NodeAt(v, p) ==
  IF p = <<>> THEN v
  ELSE IF v.t = "arr" THEN NodeAt(v.el[Head(p).i], Tail(p))
  ELSE NodeAt(Prop(v, Head(p).k), Tail(p))

\* <<path of the holder, path of the marker object>>, one per marker object
MarkerObjects ==
  LET cm == Step("chapter-marker", 0)
      P == {q \in Positions(json) : q # <<>> /\ NodeAt(json, q).t = "obj"}
      Front(q, n) == SubSeq(q, 1, Len(q) - n)
  IN {<<Front(q, 1), q>> : q \in {q \in P : q[Len(q)] = cm}} \cup
     {<<Front(q, 2), q>> :
        q \in {q \in P : Len(q) >= 2 /\ q[Len(q)].k = "" /\ q[Len(q) - 1] = cm}}

RecordOf(x) ==
  [name |-> Prop(NodeAt(json, x[2]), "@_value"),
   start |-> Prop(NodeAt(json, x[2]), "@_start"),
   assetOffset |-> Prop(NodeAt(json, x[1]), "@_offset"),
   assetStart |-> Prop(NodeAt(json, x[1]), "@_start")]

\* every expected record occurs in seq as often as it is expected
OccursAsExpected(seq, expected) ==
  \A e \in expected : Count(seq, e[2]) = Cardinality({f \in expected : f[2] = e[2]})

\* ---- C4: findChapterMarkers appends exactly one record per marker object
\* held under a 'chapter-marker' key (alone or in an array) at any depth,
\* carrying the marker's @_value/@_start and the holder's @_offset/@_start.
C4_OneRecordPerMarker ==
  (prog = "part_000" /\ pc = "collected") =>
    OccursAsExpected(chapters, {<<x, RecordOf(x)>> : x \in MarkerObjects})

LoneAndArrayAtDepths(found) ==
  \E x, y \in found :
    /\ Len(x[2]) = Len(x[1]) + 1
    /\ Len(y[2]) = Len(y[1]) + 2
    /\ Len(x[1]) > Len(y[1])

\* a lone marker and an array of markers, held at different depths
C4_Witness ==
  /\ prog = "part_000" /\ pc = "collected"
  /\ Len(chapters) >= 3
  /\ LoneAndArrayAtDepths(MarkerObjects)

\* ---- C5: consecutive output lines are in ascending time order, hours of
\* more than two digits included.
C5_LinesAscendInTime ==
  pc = "printed" =>
    \A k \in 1..Len(stdout) - 1 :
      (ReadsBack(TimePrefix(stdout[k])) /\ ReadsBack(TimePrefix(stdout[k + 1])))
        => SecondsRead(TimePrefix(stdout[k])) <= SecondsRead(TimePrefix(stdout[k + 1]))

\* ---- C6: an accepted record's string reads back as h:m:s of two or more
\* digits each with 0 <= s <= 59, 0 <= m <= 59, h >= 0 and
\* h*3600 + m*60 + s = floor(start - assetStart + assetOffset).
C6_ReadsBackToOffset ==
  pc \in {"resolved", "printed"} =>
    \A i \in Accepted :
      LET t == TimeOf(i).s
          f == SplitOn(t, ":", <<>>)
          off == ChapterOffset(prog, chapters[i])
      IN /\ ReadsBack(t)
         /\ FieldVal(f[2]) <= 59 /\ FieldVal(f[3]) <= 59
         /\ off.k = "fin" /\ Signed(off) = SecondsRead(t)

\* ---- C7: convertRationalNumber never returns a negative value.
C7_NeverNegative ==
  pc = "returned" => ~NumLt(ret, Zero)

\* the line due to record i: its timestamp, a blank, its name
LineOf(i) ==
  TimeOf(i).s \o <<" ">> \o
  (IF chapters[i].name.t = "str" THEN chapters[i].name.s
   ELSE <<"u", "n", "d", "e", "f", "i", "n", "e", "d">>)

\* seq holds one entry per index of line, each line as often as it is due
OneEntryPerLine(seq, line) ==
  /\ Len(seq) = Cardinality(DOMAIN line)
  /\ \A i \in DOMAIN line :
       Count(seq, line[i]) = Cardinality({j \in DOMAIN line : line[j] = line[i]})

\* ---- C8: one line per record the resolver does not reject (equal lines are
\* each kept), every line being the record's timestamp, a blank, its name.
C8_OneLinePerValidRecord ==
  pc = "printed" => OneEntryPerLine(stdout, [i \in Accepted |-> LineOf(i)])

C8_Witness ==
  /\ pc = "printed"
  /\ Len(stdout) = 2
  /\ stdout[1] = stdout[2]

\* ---- C9: three or more parts after stripping the trailing "s" give 0, in
\* both variants.
C9_ThreePartsIsZero ==
  (pc = "returned" /\ arg.t = "str" /\ Len(SplitOn(StripS(arg.s), "/", <<>>)) >= 3) => IsZero(ret)

\* ---- C10: every record the hard-coded variant collects is collected, as
\* often at least, by the generic walk of the same tree.
C10_HardCodedWithinGeneric ==
  (prog = "index" /\ pc = "collected") =>
    \A k \in Recs : Count(chapters, chapters[k]) <= Count(findChapterMarkers(json), chapters[k])

\* the generic walk finds strictly more than the hard-coded path
C10_Witness ==
  /\ prog = "index" /\ pc = "collected"
  /\ Len(chapters) >= 2
  /\ Len(findChapterMarkers(json)) > Len(chapters)

====
